---- MODULE Spec2Model ----
(***************************************************************************)
(* Model of the override-extraction engine of helm-remove-defaults:        *)
(* compare_and_extract_diff of main.py (ruamel.yaml, ordered maps) and of  *)
(* main-ordered.py (PyYAML, plain dicts), run on a local and a default     *)
(* values document.                                                        *)
(*                                                                         *)
(* A document is a tree of Python values as the YAML loaders build them:   *)
(*   None            [kind |-> "null"]                                     *)
(*   int/float/bool/str                                                    *)
(*                   [kind |-> "scalar", type, val, nan]                   *)
(*                   val is the numeric value (True is 1, the string with  *)
(*                   val n is the text of the integer n), nan marks the    *)
(*                   float NaN                                             *)
(*   list            [kind |-> "seq", elems |-> <<tree, ...>>]             *)
(*   dict            [kind |-> "map", items |-> <<[key, value], ...>>]     *)
(*                   in insertion order, keys unique                       *)
(* Python's None is both the Null tree and the "no difference" result.     *)
(***************************************************************************)
EXTENDS Integers, Sequences, FiniteSets, TLC

VARIABLES pc, impl, local_values, default_values, diff_values,
          args, chart_ref, loaded, engine_called, failure, exit_code,
          stdout, out_file, reported,
          column, max_length, suggestion,
          ppc, databases, futures, yielded, all_schema_info,
          bpc, fieldnames, csv_rows, line_num, queries

engineVars == <<pc, impl, local_values, default_values, diff_values>>

callerRest ==
  <<args, chart_ref, loaded, failure, exit_code, stdout, out_file, reported>>

callerVars == <<callerRest, engine_called>>

typeVars == <<column, max_length, suggestion>>

parVars == <<ppc, databases, futures, yielded, all_schema_info>>

buildVars == <<bpc, fieldnames, csv_rows, line_num, queries>>

otherVars == <<typeVars, parVars, buildVars>>

vars == <<engineVars, callerVars, otherVars>>

(***************************************************************************)
(* Bounds of the input documents.                                          *)
(***************************************************************************)
MaxInt == 2
MaxSeqLen == 2

Keys == {"a", "b"}

(***************************************************************************)
(* Tree constructors.                                                      *)
(***************************************************************************)
None == [kind |-> "null"]

Scalar(t, v) == [kind |-> "scalar", type |-> t, val |-> v, nan |-> FALSE]

NaN == [kind |-> "scalar", type |-> "float", val |-> 0, nan |-> TRUE]

List(es) == [kind |-> "seq", elems |-> es]

Dict(its) == [kind |-> "map", items |-> its]

Item(k, v) == [key |-> k, value |-> v]

(***************************************************************************)
(* Dict helpers: the keys, membership, and d[k] or d.get(k).               *)
(***************************************************************************)
KeySet(m) == {m.items[i].key : i \in 1..Len(m.items)}

HasKey(m, k) == k \in KeySet(m)

Get(m, k) ==
  IF HasKey(m, k)
  THEN m.items[CHOOSE i \in 1..Len(m.items) : m.items[i].key = k].value
  ELSE None

(***************************************************************************)
(* Python == on loaded values.  Numbers of type int, float and bool        *)
(* compare by numeric value whatever their type; NaN differs from every    *)
(* value, itself included.  Inside a list or a dict the elements are       *)
(* compared "x is y or x == y", and both loaders hand out one shared NaN   *)
(* object, so two NaN elements count as equal there.  Dicts compare        *)
(* without regard to key order.                                            *)
(***************************************************************************)
IsNumber(x) == x.kind = "scalar" /\ x.type \in {"int", "float", "bool"}

RECURSIVE PyEq(_, _)
ElemEq(x, y) ==
  \/ x.kind = "scalar" /\ y.kind = "scalar" /\ x.nan /\ y.nan
  \/ PyEq(x, y)

(* Python == with two dicts compared as OrderedDicts compare: item by item *)
(* in order.                                                               *)
PyEq_OrderedDictEq(x, y) ==
  CASE x.kind = "null" -> y.kind = "null"
    [] x.kind = "scalar" ->
         /\ y.kind = "scalar"
         /\ ~x.nan /\ ~y.nan
         /\ IF IsNumber(x) THEN IsNumber(y) /\ x.val = y.val
                           ELSE y.type = x.type /\ x.val = y.val
    [] x.kind = "seq" ->
         /\ y.kind = "seq"
         /\ Len(x.elems) = Len(y.elems)
         /\ \A i \in 1..Len(x.elems) : ElemEq(x.elems[i], y.elems[i])
    [] x.kind = "map" ->
         /\ y.kind = "map"
         /\ Len(x.items) = Len(y.items)
         /\ \A i \in 1..Len(x.items) :
              /\ x.items[i].key = y.items[i].key
              /\ ElemEq(x.items[i].value, y.items[i].value)

PyEq(x, y) ==
  CASE x.kind = "null" -> y.kind = "null"
    [] x.kind = "scalar" ->
         /\ y.kind = "scalar"
         /\ ~x.nan /\ ~y.nan
         /\ IF IsNumber(x) THEN IsNumber(y) /\ x.val = y.val
                           ELSE y.type = x.type /\ x.val = y.val
    [] x.kind = "seq" ->
         /\ y.kind = "seq"
         /\ Len(x.elems) = Len(y.elems)
         /\ \A i \in 1..Len(x.elems) : ElemEq(x.elems[i], y.elems[i])
    [] x.kind = "map" ->
         /\ y.kind = "map"
         /\ KeySet(x) = KeySet(y)
         /\ \A k \in KeySet(x) : ElemEq(Get(x, k), Get(y, k))

(***************************************************************************)
(* type(x) of main-ordered.py.                                             *)
(***************************************************************************)
PyType(x) ==
  CASE x.kind = "null" -> "NoneType"
    [] x.kind = "scalar" -> x.type
    [] x.kind = "seq" -> "list"
    [] x.kind = "map" -> "dict"

(***************************************************************************)
(* Truth value of a Python object, as "if x:" tests it: None, zero, the    *)
(* empty list and the empty dict are false (no document holds an empty     *)
(* string).                                                                *)
(***************************************************************************)
Truthy(x) ==
  CASE x.kind = "null" -> FALSE
    [] x.kind = "scalar" -> x.type = "str" \/ x.nan \/ x.val # 0
    [] x.kind = "seq" -> x.elems # <<>>
    [] x.kind = "map" -> x.items # <<>>

(***************************************************************************)
(* compare_and_extract_diff of main.py.  The dict branch walks the keys of *)
(* local_val in order; DiffItemsMain(l, d, n) is diff_dict after the first *)
(* n keys.                                                                 *)
(***************************************************************************)
RECURSIVE CompareMain(_, _), DiffItemsMain(_, _, _)
(* diff_dict of main.py with the "local_item is not None" test left out.  *)
DiffItemsMain_KeepsAddedNulls(l, d, n) ==
  IF n = 0 THEN <<>>
  ELSE LET prev == DiffItemsMain(l, d, n - 1)
           key == l.items[n].key
           local_item == l.items[n].value
       IN IF ~HasKey(d, key)
          THEN Append(prev, Item(key, local_item))
          ELSE LET sub_diff == CompareMain(local_item, Get(d, key))
               IN IF sub_diff # None
                  THEN Append(prev, Item(key, sub_diff))
                  ELSE prev

(* diff_dict of main.py with the "sub_diff is not None" test left out.    *)
DiffItemsMain_KeepsEmptySubDiff(l, d, n) ==
  IF n = 0 THEN <<>>
  ELSE LET prev == DiffItemsMain(l, d, n - 1)
           key == l.items[n].key
           local_item == l.items[n].value
       IN IF ~HasKey(d, key)
          THEN IF local_item # None
               THEN Append(prev, Item(key, local_item))
               ELSE prev
          ELSE Append(prev, Item(key, CompareMain(local_item, Get(d, key))))

(* diff_dict of main.py testing "if sub_diff:" where it tests "is not      *)
(* None".                                                                  *)
DiffItemsMain_TruthySubDiff(l, d, n) ==
  IF n = 0 THEN <<>>
  ELSE LET prev == DiffItemsMain(l, d, n - 1)
           key == l.items[n].key
           local_item == l.items[n].value
       IN IF ~HasKey(d, key)
          THEN IF local_item # None
               THEN Append(prev, Item(key, local_item))
               ELSE prev
          ELSE LET sub_diff == CompareMain(local_item, Get(d, key))
               IN IF Truthy(sub_diff)
                  THEN Append(prev, Item(key, sub_diff))
                  ELSE prev

DiffItemsMain(l, d, n) ==
  IF n = 0 THEN <<>>
  ELSE LET prev == DiffItemsMain(l, d, n - 1)
           key == l.items[n].key
           local_item == l.items[n].value
       IN IF ~HasKey(d, key)
          THEN IF local_item # None
               THEN Append(prev, Item(key, local_item))
               ELSE prev
          ELSE LET sub_diff == CompareMain(local_item, Get(d, key))
               IN IF sub_diff # None
                  THEN Append(prev, Item(key, sub_diff))
                  ELSE prev

(* main.py returning diff_dict as it is, empty or not.                     *)
CompareMain_ReturnsEmptyDict(local_val, default_val) ==
  LET local_is_map == local_val.kind = "map"
      default_is_map == default_val.kind = "map"
      local_is_seq == local_val.kind = "seq"
      default_is_seq == default_val.kind = "seq"
  IN IF (local_is_map # default_is_map) \/ (local_is_seq # default_is_seq)
     THEN local_val
     ELSE IF local_is_map
     THEN Dict(DiffItemsMain(local_val, default_val, Len(local_val.items)))
     ELSE IF ~PyEq(local_val, default_val) THEN local_val ELSE None

CompareMain(local_val, default_val) ==
  LET local_is_map == local_val.kind = "map"
      default_is_map == default_val.kind = "map"
      local_is_seq == local_val.kind = "seq"
      default_is_seq == default_val.kind = "seq"
  IN IF (local_is_map # default_is_map) \/ (local_is_seq # default_is_seq)
     THEN local_val
     ELSE IF local_is_map
     THEN LET diff_dict == DiffItemsMain(local_val, default_val,
                                         Len(local_val.items))
          IN IF diff_dict # <<>> THEN Dict(diff_dict) ELSE None
     ELSE IF ~PyEq(local_val, default_val) THEN local_val ELSE None

(***************************************************************************)
(* compare_and_extract_diff of main-ordered.py.  The dict branch walks     *)
(* set(local keys) | set(default keys); a set of strings is iterated in    *)
(* hash order, which the interpreter draws afresh for every process, so    *)
(* the walk order ord is an input: a sequence holding every key once.      *)
(***************************************************************************)
RECURSIVE CompareOrdered(_, _, _), DiffItemsOrdered(_, _, _, _)
(* diff_dict of main-ordered.py keeping the default's value for a key the  *)
(* local document lacks.                                                   *)
DiffItemsOrdered_EmitsDefaultOnly(l, d, ord, n) ==
  IF n = 0 THEN <<>>
  ELSE LET prev == DiffItemsOrdered(l, d, ord, n - 1)
           key == ord[n]
           local_item == Get(l, key)
       IN IF ~(HasKey(l, key) \/ HasKey(d, key))
          THEN prev
          ELSE IF ~HasKey(d, key)
          THEN IF local_item # None
               THEN Append(prev, Item(key, local_item))
               ELSE prev
          ELSE IF ~HasKey(l, key)
          THEN Append(prev, Item(key, Get(d, key)))
          ELSE LET sub_diff == CompareOrdered(local_item, Get(d, key), ord)
               IN IF sub_diff # None
                  THEN Append(prev, Item(key, sub_diff))
                  ELSE prev

DiffItemsOrdered(l, d, ord, n) ==
  IF n = 0 THEN <<>>
  ELSE LET prev == DiffItemsOrdered(l, d, ord, n - 1)
           key == ord[n]
           local_item == Get(l, key)
       IN IF ~(HasKey(l, key) \/ HasKey(d, key))
          THEN prev
          ELSE IF ~HasKey(d, key)
          THEN IF local_item # None
               THEN Append(prev, Item(key, local_item))
               ELSE prev
          ELSE IF ~HasKey(l, key)
          THEN prev
          ELSE LET sub_diff == CompareOrdered(local_item, Get(d, key), ord)
               IN IF sub_diff # None
                  THEN Append(prev, Item(key, sub_diff))
                  ELSE prev

(* main-ordered.py testing "if local_val:" where it tests "is not None".   *)
CompareOrdered_TruthyLocal(local_val, default_val, ord) ==
  IF PyType(local_val) # PyType(default_val)
  THEN IF Truthy(local_val) THEN local_val ELSE None
  ELSE IF local_val.kind = "map"
  THEN LET diff_dict == DiffItemsOrdered(local_val, default_val, ord, Len(ord))
       IN IF diff_dict # <<>> THEN Dict(diff_dict) ELSE None
  ELSE IF ~PyEq(local_val, default_val) THEN local_val ELSE None

CompareOrdered(local_val, default_val, ord) ==
  IF PyType(local_val) # PyType(default_val)
  THEN local_val
  ELSE IF local_val.kind = "map"
  THEN LET diff_dict == DiffItemsOrdered(local_val, default_val, ord, Len(ord))
       IN IF diff_dict # <<>> THEN Dict(diff_dict) ELSE None
  ELSE IF ~PyEq(local_val, default_val) THEN local_val ELSE None

(***************************************************************************)
(* The documents the model runs on: every tree of depth at most one over   *)
(* all the leaves (Shallow), and the mappings whose values are a null, an  *)
(* integer, a short sequence or a mapping over a null and an integer       *)
(* (Deep).  The pairs are closed under the engine's recursion: the         *)
(* children of two Shallow mappings are two Leaves, the children of two    *)
(* Deep mappings are two Inner values, and Inner is part of Shallow.       *)
(***************************************************************************)
(* The exceptions of the engine.  The operations of compare_and_extract_   *)
(* diff that can raise are those that treat a value as a dict: iterating   *)
(* local_val, local_val[key] (KeyError without the key), and .get, .keys   *)
(* and "in" on default_val (TypeError or AttributeError on a value that is *)
(* no dict).  RaisesMain and RaisesOrdered say whether a call reaches one  *)
(* of them on a value that does not support it.                            *)
(***************************************************************************)
RECURSIVE RaisesMain(_, _)
(* main.py without the test of line 86.                                    *)
RaisesMain_NoKindTest(local_val, default_val) ==
  IF local_val.kind = "map"
  THEN \/ default_val.kind # "map"
       \/ \E key \in KeySet(local_val) :
            /\ HasKey(default_val, key)
            /\ RaisesMain(Get(local_val, key), Get(default_val, key))
  ELSE FALSE

RaisesMain(local_val, default_val) ==
  IF \/ (local_val.kind = "map") # (default_val.kind = "map")
     \/ (local_val.kind = "seq") # (default_val.kind = "seq")
  THEN FALSE
  ELSE IF local_val.kind = "map"
       THEN \/ default_val.kind # "map"
            \/ \E key \in KeySet(local_val) :
                 /\ HasKey(default_val, key)
                 /\ RaisesMain(Get(local_val, key), Get(default_val, key))
       ELSE FALSE

RECURSIVE RaisesOrdered(_, _)
RaisesOrdered(local_val, default_val) ==
  IF PyType(local_val) # PyType(default_val)
  THEN FALSE
  ELSE IF local_val.kind = "map"
       THEN \/ default_val.kind # "map"
            \/ \E key \in KeySet(local_val) \cap KeySet(default_val) :
                 RaisesOrdered(Get(local_val, key), Get(default_val, key))
       ELSE FALSE

(***************************************************************************)
Scalars ==
  {Scalar("int", n) : n \in 1..MaxInt}
    \cup {Scalar("float", 1), Scalar("bool", 1), Scalar("str", 1), NaN}

Leaves == {None} \cup Scalars

SeqsOver(E) == {List(es) : es \in UNION {[1..n -> E] : n \in 0..MaxSeqLen}}

KeyOrders(K) ==
  {ks \in UNION {[1..n -> K] : n \in 0..Cardinality(K)} :
     \A i, j \in 1..Len(ks) : i # j => ks[i] # ks[j]}

MapsOver(V) ==
  {Dict([i \in 1..Len(ks) |-> Item(ks[i], vs[i])]) :
     <<ks, vs>> \in UNION {{ks} \X [1..Len(ks) -> V] : ks \in KeyOrders(Keys)}}

SeqElems ==
  {Scalar("int", 1), Scalar("float", 1), Scalar("bool", 1), NaN,
   Dict(<<Item("a", Scalar("int", 1)), Item("b", Scalar("int", 1))>>),
   Dict(<<Item("b", Scalar("int", 1)), Item("a", Scalar("int", 1))>>)}

Shallow == Leaves \cup SeqsOver(SeqElems) \cup MapsOver(Leaves)

InnerSeqs ==
  {List(<<>>), List(<<Scalar("int", 1)>>), List(<<Scalar("bool", 1)>>)}

Inner ==
  {None, Scalar("int", 1)} \cup InnerSeqs \cup MapsOver({None, Scalar("int", 1)})

Deep == MapsOver(Inner)

Inputs ==
  (Shallow \X Shallow) \cup (Deep \X Deep)
    \cup (Deep \X Leaves) \cup (Leaves \X Deep)

HashOrders == {ks \in KeyOrders(Keys) : Len(ks) = Cardinality(Keys)}

(***************************************************************************)
(* The run: the two documents are loaded, then the engine of the chosen    *)
(* script compares them.                                                   *)
(***************************************************************************)
NoArgs ==
  [add_repo |-> FALSE, name_url |-> FALSE, update_repo |-> FALSE,
   output |-> FALSE]

Unopened == [opened |-> FALSE, content |-> <<>>]

CallerStart ==
  /\ chart_ref = "repo/chart"
  /\ loaded = {}
  /\ engine_called = FALSE
  /\ failure = "none"
  /\ exit_code = <<>>
  /\ stdout = <<>>
  /\ out_file = Unopened
  /\ reported = FALSE

CallerIdle ==
  /\ args = NoArgs
  /\ CallerStart

NoColumn ==
  [data_type |-> "", character_maximum_length |-> <<>>,
   numeric_precision |-> <<>>, numeric_scale |-> <<>>]

TypeIdle ==
  /\ column = NoColumn
  /\ max_length = <<>>
  /\ suggestion = <<>>

NumDatabases == 3

NotSubmitted == [state |-> "none", outcome |-> "none", result |-> <<>>]

ParIdle ==
  /\ ppc = "idle"
  /\ databases = {}
  /\ futures = [db \in 1..NumDatabases |-> NotSubmitted]
  /\ yielded = {}
  /\ all_schema_info = <<>>

BuildIdle ==
  /\ bpc = "idle"
  /\ fieldnames = {}
  /\ csv_rows = <<>>
  /\ line_num = 0
  /\ queries = <<>>

OtherIdle == TypeIdle /\ ParIdle /\ BuildIdle

Init ==
  /\ pc = "start"
  /\ impl \in {"main", "ordered"}
  /\ local_values = None
  /\ default_values = None
  /\ diff_values = None
  /\ CallerIdle
  /\ OtherIdle

Load ==
  /\ pc = "start"
  /\ \E in \in Inputs :
       /\ local_values' = in[1]
       /\ default_values' = in[2]
  /\ pc' = "loaded"
  /\ UNCHANGED <<impl, diff_values, callerVars, otherVars>>

(* The engine's mapping branch removing each common key from default_val   *)
(* as it reads it (pop where the code has get).                            *)
Without(m, ks) ==
  LET Keep(it) == it.key \notin ks
  IN IF m.kind = "map" THEN Dict(SelectSeq(m.items, Keep)) ELSE m

RunMain_PopsDefault ==
  /\ pc = "loaded"
  /\ impl = "main"
  /\ IF RaisesMain(local_values, default_values)
     THEN pc' = "raised" /\ diff_values' = diff_values
     ELSE /\ pc' = "compared"
          /\ diff_values' = CompareMain(local_values, default_values)
  /\ engine_called' = TRUE
  /\ default_values' =
       IF local_values.kind = "map"
       THEN Without(default_values, KeySet(local_values))
       ELSE default_values
  /\ UNCHANGED <<impl, local_values, callerRest, otherVars>>

RunMain ==
  /\ pc = "loaded"
  /\ impl = "main"
  /\ IF RaisesMain(local_values, default_values)
     THEN pc' = "raised" /\ diff_values' = diff_values
     ELSE /\ pc' = "compared"
          /\ diff_values' = CompareMain(local_values, default_values)
  /\ engine_called' = TRUE
  /\ UNCHANGED <<impl, local_values, default_values, callerRest, otherVars>>

RunOrdered ==
  /\ pc = "loaded"
  /\ impl = "ordered"
  /\ IF RaisesOrdered(local_values, default_values)
     THEN pc' = "raised" /\ diff_values' = diff_values
     ELSE /\ pc' = "compared"
          /\ \E ord \in HashOrders :
               diff_values' = CompareOrdered(local_values, default_values, ord)
  /\ engine_called' = TRUE
  /\ UNCHANGED <<impl, local_values, default_values, callerRest, otherVars>>

Next == Load \/ RunMain \/ RunOrdered

Spec == Init /\ [][Next]_vars

(***************************************************************************)
(* main() of the two scripts, from the command line to the exit: the helm  *)
(* commands, the loading of the two documents, the call of the engine and  *)
(* the output.  What helm, the file system and the parser do is chosen by  *)
(* the environment.  stdout and the output file hold the parts written to  *)
(* them; the messages on stderr are left out except "No differences        *)
(* found", which is the flag reported.                                     *)
(***************************************************************************)
Args ==
  [add_repo : BOOLEAN, name_url : BOOLEAN, update_repo : BOOLEAN,
   output : BOOLEAN]

(* What a YAML document can load as at its root; None is the empty         *)
(* document.                                                               *)
RootDocs ==
  { None,
    Dict(<<>>),
    Dict(<<Item("a", Scalar("int", 1))>>),
    Dict(<<Item("a", Scalar("int", 2))>>),
    Dict(<<Item("a", List(<<>>))>>),
    Dict(<<Item("a", List(<<Scalar("int", 1)>>))>>),
    List(<<>>),
    List(<<Scalar("int", 1)>>),
    Scalar("int", 0),
    Scalar("int", 1),
    Scalar("bool", 0),
    Scalar("str", 1) }

Header(ref) == [part |-> "header", chart |-> ref, doc |-> None]

Yaml(doc) == [part |-> "yaml", chart |-> "", doc |-> doc]

MainInit ==
  /\ pc = "start"
  /\ impl \in {"main", "ordered"}
  /\ local_values = None
  /\ default_values = None
  /\ diff_values = None
  /\ args \in Args
  /\ CallerStart
  /\ OtherIdle

(* sys.exit(1) after a failure of the collaborator named step.             *)
Exit(step) ==
  /\ failure' = step
  /\ exit_code' = <<1>>
  /\ pc' = "exited"

AddRepo ==
  /\ pc = "start"
  /\ IF args.add_repo /\ args.name_url
     THEN \E ok \in BOOLEAN :
            IF ok
            THEN /\ chart_ref' = "name/chart"
                 /\ pc' = "repo_added"
                 /\ UNCHANGED <<failure, exit_code>>
            ELSE Exit("repo_add") /\ UNCHANGED chart_ref
     ELSE /\ pc' = "repo_added"
          /\ UNCHANGED <<chart_ref, failure, exit_code>>
  /\ UNCHANGED <<impl, local_values, default_values, diff_values, args,
                 loaded, engine_called, stdout, out_file, reported, otherVars>>

UpdateRepo ==
  /\ pc = "repo_added"
  /\ IF args.update_repo
     THEN \E ok \in BOOLEAN :
            IF ok
            THEN pc' = "repo_updated" /\ UNCHANGED <<failure, exit_code>>
            ELSE Exit("repo_update")
     ELSE pc' = "repo_updated" /\ UNCHANGED <<failure, exit_code>>
  /\ UNCHANGED <<impl, local_values, default_values, diff_values, args,
                 chart_ref, loaded, engine_called, stdout, out_file, reported,
                 otherVars>>

ShowValues_ContinuesOnFailure ==
  /\ pc = "repo_updated"
  /\ \E ok \in BOOLEAN :
       IF ok
       THEN pc' = "fetched" /\ UNCHANGED <<failure, exit_code>>
       ELSE pc' = "fetched" /\ failure' = "show_values" /\ UNCHANGED exit_code
  /\ UNCHANGED <<impl, local_values, default_values, diff_values, args,
                 chart_ref, loaded, engine_called, stdout, out_file, reported,
                 otherVars>>

ShowValues ==
  /\ pc = "repo_updated"
  /\ \E ok \in BOOLEAN :
       IF ok
       THEN pc' = "fetched" /\ UNCHANGED <<failure, exit_code>>
       ELSE Exit("show_values")
  /\ UNCHANGED <<impl, local_values, default_values, diff_values, args,
                 chart_ref, loaded, engine_called, stdout, out_file, reported,
                 otherVars>>

(* The empty document becomes the empty mapping; a root that is no mapping *)
(* is kept as it is.                                                       *)
RootOf(doc) == IF doc = None THEN Dict(<<>>) ELSE doc

ParseDefault ==
  /\ pc = "fetched"
  /\ \/ /\ Exit("parse_default")
        /\ UNCHANGED <<default_values, loaded>>
     \/ /\ \E doc \in RootDocs : default_values' = RootOf(doc)
        /\ loaded' = loaded \cup {"default"}
        /\ pc' = "default_loaded"
        /\ UNCHANGED <<failure, exit_code>>
  /\ UNCHANGED <<impl, local_values, diff_values, args, chart_ref,
                 engine_called, stdout, out_file, reported, otherVars>>

LoadLocal ==
  /\ pc = "default_loaded"
  /\ \/ /\ \E step \in {"read_local", "parse_local"} : Exit(step)
        /\ UNCHANGED <<local_values, loaded>>
     \/ /\ \E doc \in RootDocs : local_values' = RootOf(doc)
        /\ loaded' = loaded \cup {"local"}
        /\ pc' = "loaded"
        /\ UNCHANGED <<failure, exit_code>>
  /\ UNCHANGED <<impl, default_values, diff_values, args, chart_ref,
                 engine_called, stdout, out_file, reported, otherVars>>

(* The output of the differences, to the file of --output or to stdout; a  *)
(* failure to write the file ends the run with status 1.                   *)
WriteDiff ==
  IF args.output
  THEN \E ok \in BOOLEAN :
         IF ok
         THEN /\ out_file' = [opened |-> TRUE,
                              content |-> <<Header(chart_ref), Yaml(diff_values)>>]
              /\ exit_code' = <<0>>
              /\ pc' = "done"
              /\ UNCHANGED <<failure, stdout>>
         ELSE /\ Exit("write_output")
              /\ UNCHANGED <<out_file, stdout>>
  ELSE /\ stdout' = <<Header(chart_ref), Yaml(diff_values)>>
       /\ exit_code' = <<0>>
       /\ pc' = "done"
       /\ UNCHANGED <<failure, out_file>>

EmitMain ==
  /\ pc = "compared"
  /\ impl = "main"
  /\ LET output_generated ==
           /\ diff_values # None
           /\ \/ diff_values.kind = "map" /\ diff_values.items # <<>>
              \/ diff_values.kind = "seq" /\ diff_values.elems # <<>>
              \/ diff_values.kind \notin {"map", "seq"}
     IN IF ~output_generated
        THEN /\ reported' = TRUE
             /\ IF args.output
                THEN \E ok \in BOOLEAN :
                       IF ok
                       THEN /\ out_file' = [opened |-> TRUE, content |-> <<>>]
                            /\ UNCHANGED failure
                       ELSE /\ failure' = "write_output"
                            /\ UNCHANGED out_file
                ELSE UNCHANGED <<out_file, failure>>
             /\ exit_code' = <<0>>
             /\ pc' = "done"
             /\ UNCHANGED stdout
        ELSE WriteDiff /\ UNCHANGED reported
  /\ UNCHANGED <<impl, local_values, default_values, diff_values, args,
                 chart_ref, loaded, engine_called, otherVars>>

EmitOrdered ==
  /\ pc = "compared"
  /\ impl = "ordered"
  /\ IF ~(diff_values # None /\ Truthy(diff_values))
     THEN /\ reported' = TRUE
          /\ IF args.output
             THEN \E ok \in BOOLEAN :
                    IF ok
                    THEN /\ out_file' = [opened |-> TRUE, content |-> <<>>]
                         /\ exit_code' = <<0>>
                         /\ pc' = "done"
                         /\ UNCHANGED failure
                    ELSE Exit("write_output") /\ UNCHANGED out_file
             ELSE /\ exit_code' = <<0>>
                  /\ pc' = "done"
                  /\ UNCHANGED <<out_file, failure>>
          /\ UNCHANGED stdout
     ELSE WriteDiff /\ UNCHANGED reported
  /\ UNCHANGED <<impl, local_values, default_values, diff_values, args,
                 chart_ref, loaded, engine_called, otherVars>>

MainNext ==
  \/ AddRepo \/ UpdateRepo \/ ShowValues \/ ParseDefault \/ LoadLocal
  \/ RunMain \/ RunOrdered
  \/ EmitMain \/ EmitOrdered

MainSpec == MainInit /\ [][MainNext]_vars

(***************************************************************************)
(* suggest_optimized_type of analize-columns.py.  An Optional[int] is the  *)
(* empty tuple for None and <<n>> for n.  A type string is a name and its  *)
(* parameters: "CHAR(8)" is SqlType("CHAR", <<8>>), and the name keeps its *)
(* letter case.                                                            *)
(***************************************************************************)
MaxLength == 11

DataTypes ==
  {"int", "INT", "bigint", "smallint", "tinyint", "varchar", "char",
   "decimal", "datetime", "text"}

Lower(t) == IF t = "INT" THEN "int" ELSE t

SqlType(name, params) == [name |-> name, params |-> params]

(* "if x" on an Optional[int]: None and 0 are false.                       *)
TruthyInt(x) == x # <<>> /\ x[1] # 0

suggest_optimized_type(col, max_len) ==
  LET data_type == Lower(col.data_type)
      char_max_length == col.character_maximum_length
      num_precision == col.numeric_precision
      num_scale == col.numeric_scale
  IN IF data_type \in {"varchar", "char"}
     THEN IF max_len = <<>>
          THEN SqlType(data_type,
                       IF TruthyInt(char_max_length) THEN char_max_length
                                                     ELSE <<>>)
          ELSE IF max_len[1] <= 8 /\ data_type = "varchar"
               THEN SqlType("CHAR", max_len)
               ELSE IF max_len[1] <= 255 THEN SqlType("VARCHAR", max_len)
               ELSE IF max_len[1] <= 65535 THEN SqlType("TEXT", <<>>)
               ELSE IF max_len[1] <= 16777215 THEN SqlType("MEDIUMTEXT", <<>>)
               ELSE SqlType("LONGTEXT", <<>>)
     ELSE IF data_type \in {"int", "bigint", "smallint", "tinyint"}
     THEN IF max_len = <<>>
          THEN SqlType(data_type, <<>>)
          ELSE IF data_type = "int" /\ max_len[1] < 5
               THEN SqlType("SMALLINT", <<>>)
               ELSE IF data_type = "int" /\ max_len[1] < 3
               THEN SqlType("TINYINT", <<>>)
               ELSE IF data_type = "bigint" /\ max_len[1] < 10
               THEN SqlType("INT", <<>>)
               ELSE SqlType(data_type, <<>>)
     ELSE IF data_type = "decimal"
     THEN IF TruthyInt(num_precision) /\ TruthyInt(num_scale)
          THEN SqlType("DECIMAL", num_precision \o num_scale)
          ELSE SqlType("DECIMAL", <<10, 2>>)
     ELSE SqlType(data_type, <<>>)

Columns ==
  [data_type : DataTypes,
   character_maximum_length : {<<>>, <<0>>, <<20>>},
   numeric_precision : {<<>>, <<0>>, <<5>>},
   numeric_scale : {<<>>, <<0>>, <<2>>}]

MaxLengths ==
  {<<>>} \cup {<<n>> : n \in 0..MaxLength}
         \cup {<<n>> : n \in {255, 256, 65535, 65536, 16777215, 16777216}}

EngineIdle ==
  /\ pc = "start"
  /\ impl = "main"
  /\ local_values = None
  /\ default_values = None
  /\ diff_values = None

TypeInit ==
  /\ column \in Columns
  /\ max_length \in MaxLengths
  /\ suggestion = <<>>
  /\ EngineIdle
  /\ CallerIdle
  /\ ParIdle
  /\ BuildIdle

Suggest ==
  /\ suggestion = <<>>
  /\ suggestion' = <<suggest_optimized_type(column, max_length)>>
  /\ UNCHANGED <<column, max_length, engineVars, callerVars, parVars,
                 buildVars>>

TypeNext == Suggest

TypeSpec == TypeInit /\ [][TypeNext]_vars

(***************************************************************************)
(* analyze_all_databases_parallel of analize-columns.py.  The main thread  *)
(* submits one analyze_database task per database to a pool of max_workers *)
(* threads, takes the futures from as_completed as they finish, extends    *)
(* all_schema_info with each result, and returns when as_completed is      *)
(* exhausted.  A task ends in one of three ways: it returns its rows; an   *)
(* exception inside it is caught and it returns [] ("failed", the rows     *)
(* gathered so far are dropped); or conn.close() in its finally raises and *)
(* the future holds the exception ("raised").                              *)
(***************************************************************************)
MaxWorkers == 2

MaxRows == 2

Row(db, i) == [database |-> db, column |-> i]

RowsOf(db, n) == [i \in 1..n |-> Row(db, i)]

Running == {db \in databases : futures[db].state = "running"}

ParInit ==
  /\ ppc = "start"
  /\ databases \in SUBSET (1..NumDatabases)
  /\ futures = [db \in 1..NumDatabases |-> NotSubmitted]
  /\ yielded = {}
  /\ all_schema_info = <<>>
  /\ EngineIdle
  /\ CallerIdle
  /\ TypeIdle
  /\ BuildIdle

SubmitAll ==
  /\ ppc = "start"
  /\ futures' = [db \in 1..NumDatabases |->
                   IF db \in databases
                   THEN [state |-> "pending", outcome |-> "none", result |-> <<>>]
                   ELSE futures[db]]
  /\ ppc' = "collecting"
  /\ UNCHANGED <<databases, yielded, all_schema_info, engineVars, callerVars,
                 typeVars, buildVars>>

StartTask(db) ==
  /\ futures[db].state = "pending"
  /\ Cardinality(Running) < MaxWorkers
  /\ futures' = [futures EXCEPT ![db].state = "running"]
  /\ UNCHANGED <<ppc, databases, yielded, all_schema_info, engineVars,
                 callerVars, typeVars,
                 buildVars>>

analyze_database(db) ==
  /\ futures[db].state = "running"
  /\ \E n \in 0..MaxRows, outcome \in {"returned", "failed", "raised"} :
       futures' = [futures EXCEPT ![db] =
                     [state |-> "done", outcome |-> outcome,
                      result |-> IF outcome = "returned" THEN RowsOf(db, n)
                                                        ELSE <<>>]]
  /\ UNCHANGED <<ppc, databases, yielded, all_schema_info, engineVars,
                 callerVars, typeVars,
                 buildVars>>

Collect(db) ==
  /\ ppc = "collecting"
  /\ futures[db].state = "done"
  /\ db \notin yielded
  /\ yielded' = yielded \cup {db}
  /\ all_schema_info' =
       IF futures[db].outcome # "raised" /\ futures[db].result # <<>>
       THEN all_schema_info \o futures[db].result
       ELSE all_schema_info
  /\ UNCHANGED <<ppc, databases, futures, engineVars, callerVars, typeVars,
                 buildVars>>

(* The loop left after the first future instead of when as_completed is    *)
(* exhausted.                                                              *)
ParReturn_AfterFirst ==
  /\ ppc = "collecting"
  /\ yielded # {} \/ databases = {}
  /\ ppc' = "returned"
  /\ UNCHANGED <<databases, futures, yielded, all_schema_info, engineVars,
                 callerVars, typeVars,
                 buildVars>>

ParReturn ==
  /\ ppc = "collecting"
  /\ yielded = databases
  /\ ppc' = "returned"
  /\ UNCHANGED <<databases, futures, yielded, all_schema_info, engineVars,
                 callerVars, typeVars,
                 buildVars>>

ParNext ==
  \/ SubmitAll
  \/ \E db \in databases : StartTask(db)
  \/ \E db \in databases : analyze_database(db)
  \/ \E db \in databases : Collect(db)
  \/ ParReturn

ParSpec == ParInit /\ [][ParNext]_vars

(***************************************************************************)
(* generate_alter_queries of build-sql.py.  csv.DictReader gives one dict  *)
(* per data row, keyed by the names of the header line (fieldnames); a row *)
(* shorter than the header has None for the fields it lacks.  A field      *)
(* value is the empty tuple for None and <<s>> for the string s.  The loop *)
(* takes one row per step.                                                 *)
(***************************************************************************)
MaxCsvRows == 3

Required == <<"database", "table", "column", "current_type", "optimized_type">>

Strip(s) ==
  CASE s = " " -> ""
    [] s = " x " -> "x"
    [] s = " a " -> "a"
    [] OTHER -> s

PlainRow(db) ==
  [database |-> <<db>>, table |-> <<"t">>, column |-> <<"c">>,
   current_type |-> <<"int">>, optimized_type |-> <<"SMALLINT">>]

(* The rows of the files: complete rows of two databases, with and without *)
(* blanks around a value, and rows with one field None, empty or blank.    *)
CsvRows ==
  {PlainRow("a"), PlainRow("b"), PlainRow(" a ")}
    \cup {[PlainRow("a") EXCEPT ![Required[i]] = v] :
            i \in 1..Len(Required), v \in {<<>>, <<"">>}}
    \cup {[PlainRow("b") EXCEPT !.optimized_type = <<" ">>]}

Headers ==
  { {Required[i] : i \in 1..Len(Required)},
    {Required[i] : i \in 1..(Len(Required) - 1)} }

CsvFiles == UNION {[1..n -> CsvRows] : n \in 0..MaxCsvRows}

(* row.get(name, "")                                                       *)
RowGet(row, name) == IF name \in fieldnames THEN row[name] ELSE <<"">>

AlterQuery(db, tbl, col, current, optimized) ==
  [db |-> db, tbl |-> tbl, col |-> col, current |-> current,
   optimized |-> optimized]

BuildInit ==
  /\ bpc = "start"
  /\ fieldnames \in Headers
  /\ csv_rows \in CsvFiles
  /\ line_num = 0
  /\ queries = <<>>
  /\ EngineIdle
  /\ CallerIdle
  /\ TypeIdle
  /\ ParIdle

OpenCsv ==
  /\ bpc = "start"
  /\ \E found \in BOOLEAN : bpc' = IF found THEN "reading" ELSE "raised"
  /\ UNCHANGED <<fieldnames, csv_rows, line_num, queries, engineVars,
                 callerVars, typeVars, parVars>>

(* The body of the loop with break where the code has continue.            *)
ProcessRow_BreaksOnError ==
  /\ bpc = "reading"
  /\ line_num < Len(csv_rows)
  /\ LET row == csv_rows[line_num + 1]
         raw == [i \in 1..Len(Required) |-> RowGet(row, Required[i])]
         attribute_error == \E i \in 1..Len(Required) : raw[i] = <<>>
         val == [i \in 1..Len(Required) |->
                   IF raw[i] = <<>> THEN "" ELSE Strip(raw[i][1])]
         value_error == \E i \in 1..Len(Required) : val[i] = ""
     IN IF attribute_error \/ value_error
        THEN /\ line_num' = Len(csv_rows)
             /\ UNCHANGED queries
        ELSE /\ line_num' = line_num + 1
             /\ queries' = Append(queries,
                  AlterQuery(val[1], val[2], val[3], val[4], val[5]))
  /\ UNCHANGED <<bpc, fieldnames, csv_rows, engineVars, callerVars, typeVars,
                 parVars>>

ProcessRow ==
  /\ bpc = "reading"
  /\ line_num < Len(csv_rows)
  /\ LET row == csv_rows[line_num + 1]
         raw == [i \in 1..Len(Required) |-> RowGet(row, Required[i])]
         attribute_error == \E i \in 1..Len(Required) : raw[i] = <<>>
         val == [i \in 1..Len(Required) |->
                   IF raw[i] = <<>> THEN "" ELSE Strip(raw[i][1])]
         value_error == \E i \in 1..Len(Required) : val[i] = ""
     IN IF attribute_error \/ value_error
        THEN UNCHANGED queries
        ELSE queries' = Append(queries,
               AlterQuery(val[1], val[2], val[3], val[4], val[5]))
  /\ line_num' = line_num + 1
  /\ UNCHANGED <<bpc, fieldnames, csv_rows, engineVars, callerVars, typeVars,
                 parVars>>

ReturnQueries ==
  /\ bpc = "reading"
  /\ line_num = Len(csv_rows)
  /\ bpc' = "returned"
  /\ UNCHANGED <<fieldnames, csv_rows, line_num, queries, engineVars,
                 callerVars, typeVars, parVars>>

BuildNext == OpenCsv \/ ProcessRow \/ ReturnQueries

BuildSpec == BuildInit /\ [][BuildNext]_vars

(***************************************************************************)
(* Vocabulary of the properties.                                           *)
(*                                                                         *)
(* StructEq is the structural equality of the tree model: scalars are      *)
(* equal when they have the same logical type and the same value,          *)
(* sequences when they are pairwise equal in order, mappings when they     *)
(* have the same keys with equal values, whatever the key order.           *)
(***************************************************************************)
RECURSIVE StructEq(_, _)
StructEq(x, y) ==
  /\ x.kind = y.kind
  /\ CASE x.kind = "null" -> TRUE
       [] x.kind = "scalar" ->
            x.type = y.type /\ x.val = y.val /\ x.nan = y.nan
       [] x.kind = "seq" ->
            /\ Len(x.elems) = Len(y.elems)
            /\ \A i \in 1..Len(x.elems) : StructEq(x.elems[i], y.elems[i])
       [] x.kind = "map" ->
            /\ KeySet(x) = KeySet(y)
            /\ \A k \in KeySet(x) : StructEq(Get(x, k), Get(y, k))

(* Override-wins merge of the override o onto the base b: two mappings are *)
(* merged key by key, anything else is replaced by the override.           *)
RECURSIVE Merge(_, _), MergeItems(_, _, _)
MergeItems(b, o, n) ==
  IF n = 0 THEN <<>>
  ELSE LET k == b.items[n].key
       IN Append(MergeItems(b, o, n - 1),
                 Item(k, IF HasKey(o, k) THEN Merge(b.items[n].value, Get(o, k))
                                         ELSE b.items[n].value))

Merge(b, o) ==
  IF b.kind = "map" /\ o.kind = "map"
  THEN Dict(MergeItems(b, o, Len(b.items))
              \o SelectSeq(o.items, LAMBDA it : ~HasKey(b, it.key)))
  ELSE o

(* m reproduces l except for the keys only d has and for the keys that l   *)
(* sets to null where d has a non-null value.                              *)
RECURSIVE SameUpToExceptions(_, _, _)
SameUpToExceptions(m, l, d) ==
  IF m.kind = "map" /\ l.kind = "map" /\ d.kind = "map"
  THEN /\ \A k \in KeySet(l) :
            \/ Get(l, k) = None /\ HasKey(d, k) /\ Get(d, k) # None
            \/ /\ HasKey(m, k)
               /\ SameUpToExceptions(Get(m, k), Get(l, k), Get(d, k))
       /\ \A k \in KeySet(m) \ KeySet(l) : HasKey(d, k)
  ELSE StructEq(m, l)

Compared == pc = "compared"

BothMaps == local_values.kind = "map" /\ default_values.kind = "map"

(***************************************************************************)
(* C1  Round-trip: whenever the engine returns a result that is not None,  *)
(* merging the result onto the default document gives a tree structurally  *)
(* equal to the local document, except for keys only the default has and   *)
(* for keys the local document sets to null over a non-null default.       *)
(***************************************************************************)
C1_RoundTrip ==
  (Compared /\ diff_values # None)
    => SameUpToExceptions(Merge(default_values, diff_values),
                          local_values, default_values)

(* The same with one more exception granted: the keys that l sets to null  *)
(* and d lacks, which the mapping rule drops as well.                      *)
RECURSIVE SameUpToDroppedNulls(_, _, _)
SameUpToDroppedNulls(m, l, d) ==
  IF m.kind = "map" /\ l.kind = "map" /\ d.kind = "map"
  THEN /\ \A k \in KeySet(l) :
            \/ Get(l, k) = None /\ (HasKey(d, k) => Get(d, k) # None)
            \/ /\ HasKey(m, k)
               /\ SameUpToDroppedNulls(Get(m, k), Get(l, k), Get(d, k))
       /\ \A k \in KeySet(m) \ KeySet(l) : HasKey(d, k)
  ELSE StructEq(m, l)

RoundTripExceptDroppedNulls ==
  (Compared /\ diff_values # None)
    => SameUpToDroppedNulls(Merge(default_values, diff_values),
                            local_values, default_values)

(***************************************************************************)
(* C2  Idempotence under identity: comparing a tree with itself returns    *)
(* None, in both implementations.                                          *)
(***************************************************************************)
C2_Idempotence ==
  (Compared /\ local_values = default_values) => diff_values = None

(***************************************************************************)
(* C3  Sequence atomicity: for two sequences that are not structurally     *)
(* equal the engine returns the whole local sequence, never None.          *)
(***************************************************************************)
C3_SequenceAtomicity ==
  (/\ Compared
   /\ local_values.kind = "seq" /\ default_values.kind = "seq"
   /\ ~StructEq(local_values, default_values))
    => diff_values = local_values

(***************************************************************************)
(* C4  Order preservation: the keys of an output mapping, at the root and  *)
(* in every nested mapping, appear in the relative order they have in the  *)
(* local document, in both implementations.                                *)
(***************************************************************************)
Position(m, k) == CHOOSE i \in 1..Len(m.items) : m.items[i].key = k

RECURSIVE InLocalOrder(_, _)
InLocalOrder(o, l) ==
  /\ \A i, j \in 1..Len(o.items) :
       i < j => Position(l, o.items[i].key) < Position(l, o.items[j].key)
  /\ \A i \in 1..Len(o.items) :
       LET lv == Get(l, o.items[i].key)
       IN (o.items[i].value.kind = "map" /\ lv.kind = "map")
            => InLocalOrder(o.items[i].value, lv)

C4_OrderPreservation ==
  (Compared /\ BothMaps /\ diff_values.kind = "map")
    => InLocalOrder(diff_values, local_values)

(***************************************************************************)
(* C5  Monotonicity of addition: a key of local that default lacks is in   *)
(* the output with a value structurally equal to local's whole subtree     *)
(* when that value is not null, and is not in the output when it is null,  *)
(* at every level the mapping recursion reaches.                           *)
(***************************************************************************)
RECURSIVE AdditionsKept(_, _, _)
AdditionsKept(l, d, o) ==
  \A k \in KeySet(l) :
    IF ~HasKey(d, k)
    THEN IF Get(l, k) # None
         THEN o.kind = "map" /\ HasKey(o, k) /\ StructEq(Get(o, k), Get(l, k))
         ELSE ~(o.kind = "map" /\ HasKey(o, k))
    ELSE (Get(l, k).kind = "map" /\ Get(d, k).kind = "map")
           => AdditionsKept(Get(l, k), Get(d, k),
                            IF o.kind = "map" THEN Get(o, k) ELSE None)

C5_MonotonicityOfAddition ==
  (Compared /\ BothMaps)
    => AdditionsKept(local_values, default_values, diff_values)

HasNullValue(m) == \E i \in 1..Len(m.items) : m.items[i].value = None

C5_Witness ==
  /\ Compared /\ BothMaps /\ diff_values.kind = "map"
  /\ \E k \in KeySet(local_values) \ KeySet(default_values) :
       /\ Get(local_values, k).kind = "map"
       /\ HasNullValue(Get(local_values, k))
       /\ Get(diff_values, k) = Get(local_values, k)
  /\ \E k \in KeySet(local_values) \cap KeySet(default_values) :
       /\ Get(local_values, k).kind = "map"
       /\ Get(default_values, k).kind = "map"
       /\ \E j \in KeySet(Get(local_values, k)) \ KeySet(Get(default_values, k)) :
            /\ Get(Get(local_values, k), j) # None
            /\ HasKey(diff_values, k)
            /\ HasKey(Get(diff_values, k), j)

(***************************************************************************)
(* C6  Empty-result suppression: for two mappings the engine returns None  *)
(* or a mapping with at least one entry, never an empty mapping, and it    *)
(* returns None when every key of local is in default with a value whose   *)
(* comparison yields None (a local mapping without keys included).         *)
(***************************************************************************)
SubDiffIsNone(k) ==
  LET l == Get(local_values, k)
      d == Get(default_values, k)
  IN IF impl = "main"
     THEN CompareMain(l, d) = None
     ELSE \A ord \in HashOrders : CompareOrdered(l, d, ord) = None

EveryKeyMatches ==
  \A k \in KeySet(local_values) : HasKey(default_values, k) /\ SubDiffIsNone(k)

C6_EmptyResultSuppression ==
  (Compared /\ BothMaps)
    => /\ diff_values = None
          \/ (diff_values.kind = "map" /\ Len(diff_values.items) >= 1)
       /\ EveryKeyMatches => diff_values = None

C6_Witness ==
  /\ Compared /\ BothMaps
  /\ Len(local_values.items) = 2
  /\ EveryKeyMatches
  /\ diff_values = None

(***************************************************************************)
(* C7  Default-only keys are never emitted: every key path of the result   *)
(* is a key path of local.                                                 *)
(***************************************************************************)
RECURSIVE PathsWithin(_, _)
PathsWithin(o, l) ==
  CASE o.kind = "map" ->
         /\ l.kind = "map"
         /\ \A k \in KeySet(o) : HasKey(l, k) /\ PathsWithin(Get(o, k), Get(l, k))
    [] o.kind = "seq" ->
         /\ l.kind = "seq"
         /\ Len(o.elems) <= Len(l.elems)
         /\ \A i \in 1..Len(o.elems) : PathsWithin(o.elems[i], l.elems[i])
    [] OTHER -> TRUE

C7_DefaultOnlyKeysNotEmitted == Compared => PathsWithin(diff_values, local_values)

C7_Witness ==
  /\ Compared /\ BothMaps /\ diff_values.kind = "map"
  /\ KeySet(default_values) \ KeySet(local_values) # {}
  /\ \E k \in KeySet(diff_values) :
       /\ Get(default_values, k).kind = "map"
       /\ Get(diff_values, k).kind = "map"
       /\ KeySet(Get(default_values, k)) \ KeySet(Get(local_values, k)) # {}

(***************************************************************************)
(* C8  Dropped-null policy: a key that local sets to null and to which     *)
(* default gives a non-null value is left out of the output, so a local    *)
(* mapping holding only such keys gives None, in both implementations.     *)
(***************************************************************************)
NullOverNonNull(k) ==
  /\ HasKey(local_values, k) /\ HasKey(default_values, k)
  /\ Get(local_values, k) = None
  /\ Get(default_values, k) # None

C8_DroppedNull ==
  (Compared /\ BothMaps)
    => /\ \A k \in Keys :
            NullOverNonNull(k) => ~(diff_values.kind = "map" /\ HasKey(diff_values, k))
       /\ (\A k \in KeySet(local_values) : NullOverNonNull(k)) => diff_values = None

C8_Witness ==
  /\ Compared
  /\ local_values = Dict(<<Item("a", None)>>)
  /\ default_values = Dict(<<Item("a", Scalar("int", 1))>>)
  /\ diff_values = None

(***************************************************************************)
(* C9  Type-sensitive scalar rule: for two scalars the engine returns None *)
(* exactly when they have the same logical type and the same value, and    *)
(* returns local otherwise.                                                *)
(***************************************************************************)
C9_TypeSensitiveScalars ==
  (Compared /\ local_values.kind = "scalar" /\ default_values.kind = "scalar")
    => IF StructEq(local_values, default_values)
       THEN diff_values = None
       ELSE diff_values = local_values

(***************************************************************************)
(* C10  Kind mismatch rule: when the kinds of local and default differ the *)
(* engine returns the whole local subtree when local is not null (an empty *)
(* mapping or sequence included) and None when local is null.              *)
(***************************************************************************)
C10_KindMismatch ==
  (Compared /\ local_values.kind # default_values.kind)
    => IF local_values = None
       THEN diff_values = None
       ELSE diff_values = local_values

C10_Witness ==
  /\ Compared
  /\ local_values = Dict(<<>>)
  /\ default_values.kind = "scalar"
  /\ diff_values = Dict(<<>>)

(***************************************************************************)
(* C11  Minimality of the result: no mapping entry of the result is        *)
(* redundant (its key is absent from default at that path, or its value is *)
(* not structurally equal to default's value there), and the engine        *)
(* returns None only when local adds no key with a non-null value and      *)
(* changes no value of default.                                            *)
(***************************************************************************)
RECURSIVE NoRedundantEntry(_, _)
NoRedundantEntry(o, d) ==
  o.kind = "map" =>
    \A k \in KeySet(o) :
      /\ (d.kind = "map" /\ HasKey(d, k)) => ~StructEq(Get(o, k), Get(d, k))
      /\ NoRedundantEntry(Get(o, k), IF d.kind = "map" THEN Get(d, k) ELSE None)

RECURSIVE IntroducesOverride(_, _)
IntroducesOverride(l, d) ==
  IF l.kind = "map" /\ d.kind = "map"
  THEN \E k \in KeySet(l) :
         IF HasKey(d, k) THEN IntroducesOverride(Get(l, k), Get(d, k))
                         ELSE Get(l, k) # None
  ELSE ~StructEq(l, d)

C11_Minimality ==
  Compared
    => /\ diff_values # None => NoRedundantEntry(diff_values, default_values)
       /\ diff_values = None => ~IntroducesOverride(local_values, default_values)

(* The same with nulls granted: a null of local set against anything is    *)
(* not counted as a change.                                                *)
RECURSIVE IntroducesNonNullOverride(_, _)
IntroducesNonNullOverride(l, d) ==
  IF l.kind = "map" /\ d.kind = "map"
  THEN \E k \in KeySet(l) :
         IF HasKey(d, k) THEN IntroducesNonNullOverride(Get(l, k), Get(d, k))
                         ELSE Get(l, k) # None
  ELSE l # None /\ ~StructEq(l, d)

MinimalityExceptDroppedNulls ==
  Compared
    => (diff_values = None
          => ~IntroducesNonNullOverride(local_values, default_values))

NoRedundantEntries ==
  (Compared /\ diff_values # None)
    => NoRedundantEntry(diff_values, default_values)

(***************************************************************************)
(* C12  Clearing a list is expressible: an empty local sequence against a  *)
(* non-empty default sequence returns the empty sequence, not None, and    *)
(* under a key of two mappings the output maps that key to the empty       *)
(* sequence.                                                               *)
(***************************************************************************)
ClearsList(l, d) == l = List(<<>>) /\ d.kind = "seq" /\ d.elems # <<>>

C12_ClearingAList ==
  Compared
    => /\ ClearsList(local_values, default_values)
            => (diff_values = List(<<>>) /\ diff_values # None)
       /\ BothMaps =>
            \A k \in KeySet(local_values) \cap KeySet(default_values) :
              ClearsList(Get(local_values, k), Get(default_values, k))
                => /\ diff_values.kind = "map"
                   /\ HasKey(diff_values, k)
                   /\ Get(diff_values, k) = List(<<>>)

C12_Witness ==
  /\ Compared /\ BothMaps
  /\ \E k \in KeySet(local_values) \cap KeySet(default_values) :
       /\ ClearsList(Get(local_values, k), Get(default_values, k))
       /\ diff_values = Dict(<<Item(k, List(<<>>))>>)

(***************************************************************************)
(* C17  Equal sequences yield no override: two sequences of the same       *)
(* length whose elements are pairwise structurally equal, nested mappings  *)
(* counting as equal whatever their key order, give None.                  *)
(***************************************************************************)
C17_EqualSequences ==
  (/\ Compared
   /\ local_values.kind = "seq" /\ default_values.kind = "seq"
   /\ StructEq(local_values, default_values))
    => diff_values = None

C17_Witness ==
  /\ Compared
  /\ local_values.kind = "seq" /\ default_values.kind = "seq"
  /\ local_values # default_values
  /\ \E i \in 1..Len(local_values.elems) : local_values.elems[i].kind = "map"
  /\ StructEq(local_values, default_values)
  /\ diff_values = None

(***************************************************************************)
(* C18  The two implementations agree: on every pair of trees main.py and  *)
(* main-ordered.py both return None or return trees that are structurally  *)
(* equal, key order set aside.                                             *)
(***************************************************************************)
OtherResults ==
  IF impl = "main"
  THEN {CompareOrdered(local_values, default_values, ord) : ord \in HashOrders}
  ELSE {CompareMain(local_values, default_values)}

C18_ImplementationsAgree ==
  Compared => \A other \in OtherResults : StructEq(diff_values, other)

(***************************************************************************)
(* C13  Totality: on every pair of trees, whatever the kinds at each       *)
(* level, the engine terminates and returns None or a tree; it raises no   *)
(* exception.                                                              *)
(***************************************************************************)
RECURSIVE IsTree(_)
IsTree(x) ==
  CASE x.kind = "null" -> x = None
    [] x.kind = "scalar" -> x.type \in {"int", "float", "bool", "str"}
    [] x.kind = "seq" -> \A i \in 1..Len(x.elems) : IsTree(x.elems[i])
    [] x.kind = "map" ->
         /\ \A i \in 1..Len(x.items) : IsTree(x.items[i].value)
         /\ \A i, j \in 1..Len(x.items) :
              x.items[i].key = x.items[j].key => i = j
    [] OTHER -> FALSE

C13_Totality ==
  /\ pc # "raised"
  /\ Compared => IsTree(diff_values)

C13_Witness ==
  /\ Compared
  /\ local_values.kind = "map" /\ default_values.kind = "map"
  /\ \E k \in KeySet(local_values) \cap KeySet(default_values) :
       /\ Get(local_values, k).kind = "map"
       /\ Get(default_values, k).kind \in {"seq", "scalar", "null"}
  /\ \E k \in KeySet(local_values) \cap KeySet(default_values) :
       /\ Get(local_values, k).kind \in {"seq", "scalar", "null"}
       /\ Get(default_values, k).kind = "map"

(***************************************************************************)
(* C14  Inputs are left unchanged: the call of the engine, recursive calls *)
(* included, leaves the local tree and the default tree as they were       *)
(* (same keys, same key order, same values).                               *)
(***************************************************************************)
C14_InputsUnchanged ==
  [][(pc = "loaded" /\ pc' # "loaded")
       => (local_values' = local_values /\ default_values' = default_values)]_vars

C14_Witness ==
  /\ Compared
  /\ BothMaps
  /\ KeySet(local_values) \cap KeySet(default_values) # {}
  /\ diff_values.kind = "map"

(***************************************************************************)
(* C15  Caller output contract: when the engine's result is present (any   *)
(* value but None, the empty sequence and falsy scalars included), main()  *)
(* emits the provenance header followed by the serialized result; when the *)
(* result is None it emits no content (nothing on stdout, or an empty file *)
(* with --output), reports that no differences were found and ends         *)
(* successfully.  Stated for the runs in which nothing failed.             *)
(***************************************************************************)
Ended == pc \in {"done", "exited"}

Emitted == IF args.output THEN out_file.content ELSE stdout

C15_CallerOutputContract ==
  (Ended /\ engine_called /\ failure = "none")
    => IF diff_values # None
       THEN Emitted = <<Header(chart_ref), Yaml(diff_values)>>
       ELSE /\ stdout = <<>>
            /\ args.output => out_file = [opened |-> TRUE, content |-> <<>>]
            /\ ~args.output => out_file = Unopened
            /\ reported
            /\ exit_code = <<0>>

(* What the two scripts do instead: the result is emitted when it is       *)
(* non-empty (main.py: any scalar, a non-empty mapping or sequence;        *)
(* main-ordered.py: any truthy value), and treated as no difference        *)
(* otherwise.                                                              *)
Emits(d) ==
  IF impl = "main"
  THEN d # None /\ (d.kind \in {"map", "seq"} => Truthy(d))
  ELSE Truthy(d)

EmitsNonEmptyResults ==
  (Ended /\ engine_called /\ failure = "none")
    => IF Emits(diff_values)
       THEN Emitted = <<Header(chart_ref), Yaml(diff_values)>> /\ ~reported
       ELSE Emitted = <<>> /\ reported /\ exit_code = <<0>>

(***************************************************************************)
(* C16  Collaborator failures abort before the engine runs: when a helm    *)
(* command fails, or the default or the local document cannot be read or   *)
(* parsed, the process ends with exit status 1, the engine has not been    *)
(* called and the output file has not been opened or written; the engine   *)
(* is called only after both documents have been loaded.                   *)
(***************************************************************************)
CollaboratorFailures ==
  {"repo_add", "repo_update", "show_values", "parse_default", "read_local",
   "parse_local"}

C16_FailuresAbortBeforeEngine ==
  /\ failure \in CollaboratorFailures
       => /\ pc = "exited"
          /\ exit_code = <<1>>
          /\ ~engine_called
          /\ out_file = Unopened
          /\ stdout = <<>>
  /\ engine_called => loaded = {"default", "local"}

C16_Witness ==
  /\ failure = "parse_local"
  /\ pc = "exited"
  /\ args.output
  /\ "default" \in loaded

(***************************************************************************)
(* C19  Integer narrowing: for data_type 'int' with a known max_length the *)
(* suggestion is TINYINT below 3, SMALLINT for 3 and 4, and 'int' from 5   *)
(* on; for 'bigint' it is INT below 10 and 'bigint' otherwise; with        *)
(* max_length None the current type is returned unchanged.                 *)
(***************************************************************************)
Suggested == suggestion # <<>>

C19_IntegerNarrowing ==
  Suggested =>
    LET data_type == Lower(column.data_type)
        s == suggestion[1]
    IN /\ (data_type = "int" /\ max_length # <<>>)
            => s = IF max_length[1] < 3 THEN SqlType("TINYINT", <<>>)
                   ELSE IF max_length[1] < 5 THEN SqlType("SMALLINT", <<>>)
                   ELSE SqlType("int", <<>>)
       /\ (data_type = "bigint" /\ max_length # <<>>)
            => s = IF max_length[1] < 10 THEN SqlType("INT", <<>>)
                   ELSE SqlType("bigint", <<>>)
       /\ (data_type \in {"int", "bigint"} /\ max_length = <<>>)
            => s = SqlType(data_type, <<>>)

(* The same without the TINYINT case: every 'int' below 5 gives SMALLINT.  *)
NarrowingWithoutTinyint ==
  Suggested =>
    LET data_type == Lower(column.data_type)
        s == suggestion[1]
    IN /\ (data_type = "int" /\ max_length # <<>>)
            => s = IF max_length[1] < 5 THEN SqlType("SMALLINT", <<>>)
                   ELSE SqlType("int", <<>>)
       /\ (data_type = "bigint" /\ max_length # <<>>)
            => s = IF max_length[1] < 10 THEN SqlType("INT", <<>>)
                   ELSE SqlType("bigint", <<>>)
       /\ (data_type \in {"int", "bigint"} /\ max_length = <<>>)
            => s = SqlType(data_type, <<>>)

(***************************************************************************)
(* C20  Parallel aggregation: whatever the set of databases and the        *)
(* interleaving and completion order of the tasks, the call returns after  *)
(* all tasks have completed, and the returned list holds the rows of each  *)
(* database's analyze_database result exactly once; a database whose       *)
(* analysis fails contributes no row and does not keep the rows of the     *)
(* others from being returned.                                             *)
(***************************************************************************)
Occurrences(r, rows) == Cardinality({i \in 1..Len(rows) : rows[i] = r})

Failed(db) == futures[db].outcome \in {"failed", "raised"}

RECURSIVE TotalRows(_)
TotalRows(dbs) ==
  IF dbs = {} THEN 0
  ELSE LET db == CHOOSE d \in dbs : TRUE
       IN Len(futures[db].result) + TotalRows(dbs \ {db})

C20_ParallelAggregation ==
  ppc = "returned"
    => /\ \A db \in databases : futures[db].state = "done"
       /\ \A db \in databases :
            \A i \in 1..Len(futures[db].result) :
              Occurrences(futures[db].result[i], all_schema_info) = 1
       /\ Len(all_schema_info) = TotalRows(databases)
       /\ \A db \in databases :
            Failed(db)
              => \A i \in 1..Len(all_schema_info) :
                   all_schema_info[i].database # db

C20_Witness ==
  /\ ppc = "returned"
  /\ \E db \in databases : futures[db].outcome = "raised"
  /\ \E db \in databases : futures[db].outcome = "failed"
  /\ Len(all_schema_info) = MaxRows
  /\ databases = 1..NumDatabases

(* The rows come in completion order, not in the order of submission.      *)
C20_OutOfOrderWitness ==
  /\ ppc = "returned"
  /\ Len(all_schema_info) >= 2
  /\ all_schema_info[1].database > all_schema_info[Len(all_schema_info)].database

(***************************************************************************)
(* C21  Row filtering: the list returned by generate_alter_queries holds   *)
(* exactly one ALTER TABLE statement for each row whose database, table,   *)
(* column, current_type and optimized_type are all non-empty after         *)
(* trimming, in the order of the rows in the file; a row with one of these *)
(* fields missing or empty gives no statement and does not stop the        *)
(* processing of the rows after it.                                        *)
(***************************************************************************)
Blank(s) == s \in {"", " "}

Complete(row) ==
  \A i \in 1..Len(Required) :
    /\ Required[i] \in fieldnames
    /\ row[Required[i]] # <<>>
    /\ ~Blank(row[Required[i]][1])

CompleteLines == {n \in 1..Len(csv_rows) : Complete(csv_rows[n])}

(* queries[k] is the statement of the k-th complete row.                   *)
LineOf(k) ==
  CHOOSE n \in CompleteLines :
    Cardinality({m \in CompleteLines : m <= n}) = k

C21_RowFiltering ==
  bpc = "returned"
    => /\ line_num = Len(csv_rows)
       /\ Len(queries) = Cardinality(CompleteLines)
       /\ \A k \in 1..Len(queries) :
            LET row == csv_rows[LineOf(k)]
            IN /\ Strip(row.database[1]) = queries[k].db
               /\ Strip(row.table[1]) = queries[k].tbl
               /\ Strip(row.column[1]) = queries[k].col
               /\ Strip(row.optimized_type[1]) = queries[k].optimized

C21_Witness ==
  /\ bpc = "returned"
  /\ Len(csv_rows) = 3
  /\ Complete(csv_rows[1]) /\ ~Complete(csv_rows[2]) /\ Complete(csv_rows[3])
  /\ csv_rows[2].table = <<>>
  /\ Len(queries) = 2
  /\ queries[1].db = "b" /\ queries[2].db = "a"

====
